---- MODULE Spec2Model ----
(***************************************************************************)
(* A model of the five-bells ledger plugin (src/src/lib/plugin.js): the    *)
(* account-resolution retry loop, the connect / disconnect life cycle and  *)
(* the subscription stream kept alive by reconnect-core.                   *)
(*                                                                         *)
(* Every action is one run of the program between two suspension points    *)
(* (a yield on network I/O, a timer, or an event callback).                *)
(***************************************************************************)
EXTENDS Integers, Sequences, FiniteSets, TLC

\* ------------------------------------------------------------------------
\* Bounds of the model
\* ------------------------------------------------------------------------
\* number of connect() invocations a behaviour may contain
MaxCalls == 2
\* number of WebSocket objects a behaviour may create
MaxStreams == 3
\* number of transport failures one account request may meet while the whole
\* adapter is explored (the retry loop on its own is explored without it)
MaxRetries == 1
\* number of getInfo() invocations a behaviour may contain
MaxInfoCalls == 2
\* number of entries in the credits, and in the debits, of a notified transfer
MaxParties == 2
\* number of case URIs a submitted transfer may carry
MaxCases == 2

\* ------------------------------------------------------------------------
\* Program constants
\* ------------------------------------------------------------------------
backoffMin == 1000
backoffMax == 30000

REQUIRED_LEDGER_URLS ==
  {"transfer", "transfer_fulfillment", "transfer_rejection",
   "account", "account_transfers", "message"}

\* ------------------------------------------------------------------------
\* Values
\* ------------------------------------------------------------------------
\* null / undefined of a string-valued field
Nil == "nil"
\* an optional value: <<>> is undefined, <<x>> is x
None == <<>>
Some(x) == <<x>>
IsSome(o) == o /= <<>>
Get(o) == o[1]

Calls == 1..MaxCalls

Min(a, b) == IF a <= b THEN a ELSE b

\* strings that are inspected by the code are sequences of characters
Str_http  == <<"h", "t", "t", "p", ":">>
Str_https == <<"h", "t", "t", "p", "s", ":">>
Str_ws    == <<"w", "s", ":">>
Str_ftp   == <<"f", "t", "p", ":">>
Str_empty == <<>>

\* String.prototype.indexOf(p) === 0
IndexOfIsZero(s, p) == Len(s) >= Len(p) /\ SubSeq(s, 1, Len(p)) = p

\* the names of the failures a connect() promise can be rejected with
ResolveError     == "Error: Failed to resolve ledger URI from account URI"
PrefixError      == "Error: Unable to set prefix from ledger or from local config"
ExternalError    == "ExternalError"
UnreachableError == "UnreachableError"
TypeError        == "TypeError"
\* the error object the WebSocket library hands to its 'error' listeners
TransportError   == "Error: transport"

ResolutionFailures == {ResolveError, PrefixError, ExternalError, TypeError}
Failures == ResolutionFailures \cup {UnreachableError, TransportError}

\* ------------------------------------------------------------------------
\* Inputs: what the remote ledger can answer
\* ------------------------------------------------------------------------
\* GET <account>: status and body ({ledger, name}, ledger possibly missing)
AccountBodies ==
  {None,
   Some([ledger |-> Nil, name |-> "alice"]),
   Some([ledger |-> "http://ledger", name |-> "alice"])}
AccountResponses ==
  [status : {200}, body : AccountBodies]
  \cup {[status |-> 404, body |-> None],
        [status |-> 500, body |-> Some([ledger |-> "http://ledger", name |-> "alice"])]}
NoResponse == [status |-> 0, body |-> None]

\* the urls map of the ledger root resource
GoodUrls ==
  [s \in REQUIRED_LEDGER_URLS |->
     IF s = "account_transfers" THEN Str_ws ELSE Str_http]
BadUrlValues == {Str_empty, Str_ftp}
UrlMaps ==
  {GoodUrls}
  \cup {[GoodUrls EXCEPT ![s] = v] : s \in REQUIRED_LEDGER_URLS, v \in BadUrlValues}
  \cup {[GoodUrls EXCEPT !["account_transfers"] = Str_http],
        [GoodUrls EXCEPT !["message"] = Str_ws]}

GoodMeta ==
  [precision |-> Some(2), scale |-> Some(2), urls |-> Some(GoodUrls),
   ilp_prefix |-> "example.red."]
\* bodies of the ledger root resource: the good one and its one-field variants
MetaBodies ==
  {Some(GoodMeta)}
  \cup {Some([GoodMeta EXCEPT !.precision = v]) : v \in {None, Some(0)}}
  \cup {Some([GoodMeta EXCEPT !.scale = v]) : v \in {None, Some(0)}}
  \cup {Some([GoodMeta EXCEPT !.urls = Some(u)]) : u \in UrlMaps}
  \cup {Some([GoodMeta EXCEPT !.urls = None]),
        Some([GoodMeta EXCEPT !.ilp_prefix = Nil]),
        None}
MetaResponses ==
  {[status |-> 200, body |-> b] : b \in MetaBodies}
  \cup {[status |-> 500, body |-> Some(GoodMeta)]}

\* url values whose first characters pass the check of their service although
\* their scheme is another one, and the secure variants of the two schemes
Str_wss   == <<"w", "s", "s", ":">>
Str_wsx   == <<"w", "s", "x", ":">>
Str_httpx == <<"h", "t", "t", "p", "x", ":">>
UrlValues ==
  {Str_empty, Str_ftp, Str_http, Str_https, Str_httpx, Str_ws, Str_wss, Str_wsx}
\* what ledgerMetadata.urls can be when parseAndValidateLedgerUrls is called:
\* undefined, or the good map with up to two entries replaced
MetadataUrlsInputs ==
  {None}
  \cup {Some([GoodUrls EXCEPT ![s] = v, ![t] = w]) :
          s \in REQUIRED_LEDGER_URLS, t \in {"account_transfers", "message"},
          v \in UrlValues, w \in UrlValues}

InfoCalls == 1..MaxInfoCalls
\* a getInfo() call that has not been made
NoInfoCall ==
  [pc |-> "idle", result |-> "none", value |-> None, calls |-> 0,
   afterResolved |-> FALSE]
\* no operation has been called, no frame has been delivered
NoOp == [name |-> "none"]
NoNote == [type |-> "none"]

\* ------------------------------------------------------------------------
\* State
\* ------------------------------------------------------------------------
VARIABLES
  configPrefix,  \* this.configPrefix
  host,          \* this.host
  username,      \* this.credentials.username
  urls,          \* this.urls
  prefix,        \* this.prefix
  connection,    \* this.connection: 0 (null) or the emitter it holds
  connected,     \* this.connected
  lastEvent,     \* the last of 'connect' / 'disconnect' this plugin emitted
  pc,            \* per connect() call: where its coroutine is suspended
  delay,         \* per call: requestRetry's delay
  lastWait,      \* per call: the duration of requestRetry's last wait(), 0 if none
  prevWait,      \* per call: the duration of the wait before that, 0 if none
  rrRes,         \* per call: requestRetry's res (the response it received)
  connRes,       \* per call: _connect's res (what requestRetry returned)
  metaFailed,    \* per call: the ledger root request failed in transport
  result,        \* per call: how its promise settled, "none" while pending
  em,            \* per call: the reconnect-core emitter it created
  streams,       \* the WebSocket objects created so far
  quiesced,      \* disconnect() was called after a connect(), and no connect() since
  info,          \* this.info
  gi,            \* per getInfo() call: where its coroutine is, and what it did
  op,            \* the last other operation called: its input, outcome and result
  note           \* the last frame the stream delivered, and what handling it did

vars == <<configPrefix, host, username, urls, prefix, connection, connected,
          lastEvent, pc, delay, lastWait, prevWait, rrRes, connRes, metaFailed,
          result, em, streams, quiesced, info, gi, op, note>>

opVars == <<info, gi, op, note>>

pluginVars == <<configPrefix, host, username, urls, prefix>>
retryVars == <<delay, lastWait, prevWait, rrRes, connRes>>

NoEmitter ==
  [exists |-> FALSE, connected |-> FALSE, reconnect |-> FALSE,
   conn |-> 0, backoff |-> FALSE]

\* the constructor's assignments for the connect / disconnect life cycle
InitConnection ==
  /\ configPrefix \in {Nil, "cfg."}
  /\ host = Nil
  /\ username = Nil
  /\ urls = None
  /\ prefix = Nil
  /\ connection = 0
  /\ connected = FALSE
  /\ lastEvent = "none"
  /\ pc = [c \in Calls |-> "idle"]
  /\ delay = [c \in Calls |-> 0]
  /\ lastWait = [c \in Calls |-> 0]
  /\ prevWait = [c \in Calls |-> 0]
  /\ rrRes = [c \in Calls |-> NoResponse]
  /\ connRes = [c \in Calls |-> NoResponse]
  /\ metaFailed = [c \in Calls |-> FALSE]
  /\ result = [c \in Calls |-> "none"]
  /\ em = [c \in Calls |-> NoEmitter]
  /\ streams = <<>>
  /\ quiesced = FALSE

Init ==
  /\ InitConnection
  /\ info = None
  /\ gi = [g \in InfoCalls |-> NoInfoCall]
  /\ op = NoOp
  /\ note = NoNote

\* ------------------------------------------------------------------------
\* requestRetry
\* ------------------------------------------------------------------------
\* (a variant that treats every status from 400 up as terminal)
Is4xx_From400Up(status) == status >= 400

\* res.statusCode >= 400 && res.statusCode < 500
Is4xx(status) == status >= 400 /\ status < 500

\* Math.min(Math.floor(1.5 * delay), backoffMax)
NextDelay(d) == Min((3 * d) \div 2, backoffMax)

\* requestRetry's delay after n transport failures
RECURSIVE DelayAfter(_)
DelayAfter(n) == IF n = 0 THEN backoffMin ELSE NextDelay(DelayAfter(n - 1))

\* a connect() call: the coroutine runs to requestRetry's first request, or
\* returns at once when a subscription handle is already there
ConnectCall(c) ==
  /\ pc[c] = "idle"
  /\ IF c = 1 THEN TRUE ELSE pc[c - 1] /= "idle"
  /\ IF connection /= 0
       THEN /\ pc' = [pc EXCEPT ![c] = "done"]
            /\ result' = [result EXCEPT ![c] = "ok"]
            /\ delay' = delay
       ELSE /\ pc' = [pc EXCEPT ![c] = "account"]
            /\ delay' = [delay EXCEPT ![c] = backoffMin]
            /\ result' = result
  /\ quiesced' = FALSE
  /\ UNCHANGED <<opVars, pluginVars, connection, connected, lastEvent, lastWait,
                 prevWait, rrRes, connRes, metaFailed, em, streams>>

\* the account request throws: the delay grows and the coroutine waits
AccountTransportFailure(c) ==
  /\ pc[c] = "account"
  /\ delay' = [delay EXCEPT ![c] = NextDelay(delay[c])]
  /\ prevWait' = [prevWait EXCEPT ![c] = lastWait[c]]
  /\ lastWait' = [lastWait EXCEPT ![c] = NextDelay(delay[c])]
  /\ pc' = [pc EXCEPT ![c] = "backoff"]
  /\ UNCHANGED <<opVars, pluginVars, connection, connected, lastEvent, rrRes, connRes,
                 metaFailed, result, em, streams, quiesced>>

\* the wait is over: the loop issues the request again
BackoffDone(c) ==
  /\ pc[c] = "backoff"
  /\ pc' = [pc EXCEPT ![c] = "account"]
  /\ UNCHANGED <<opVars, pluginVars, connection, connected, lastEvent, retryVars,
                 metaFailed, result, em, streams, quiesced>>

\* what _connect does with the response requestRetry returned
AccountBodyError(body) ==
  IF body = None THEN TypeError
  ELSE IF Get(body).ledger = Nil THEN ResolveError
  ELSE "none"

\* the account request is answered: requestRetry ends (its delay goes out of
\* scope), and _connect runs on to the ledger root request
AccountResponse(c, r) ==
  /\ pc[c] = "account"
  /\ rrRes' = [rrRes EXCEPT ![c] = r]
  /\ delay' = [delay EXCEPT ![c] = 0]
  /\ lastWait' = [lastWait EXCEPT ![c] = 0]
  /\ prevWait' = [prevWait EXCEPT ![c] = 0]
  /\ IF Is4xx(r.status)
       THEN /\ pc' = [pc EXCEPT ![c] = "done"]
            /\ result' = [result EXCEPT ![c] = ResolveError]
            /\ UNCHANGED <<connRes, host, username>>
       ELSE /\ connRes' = [connRes EXCEPT ![c] = r]
            /\ IF AccountBodyError(r.body) /= "none"
                 THEN /\ pc' = [pc EXCEPT ![c] = "done"]
                      /\ result' = [result EXCEPT ![c] = AccountBodyError(r.body)]
                      /\ UNCHANGED <<host, username>>
                 ELSE /\ host' = Get(r.body).ledger
                      /\ username' = IF username = Nil THEN Get(r.body).name
                                     ELSE username
                      /\ pc' = [pc EXCEPT ![c] = "metadata"]
                      /\ result' = result
  /\ UNCHANGED <<opVars, configPrefix, urls, prefix, connection, connected, lastEvent,
                 metaFailed, em, streams, quiesced>>

\* ------------------------------------------------------------------------
\* _fetchLedgerMetadata, parseAndValidateLedgerUrls
\* ------------------------------------------------------------------------
\* !x of an optional number
Falsy(o) == o = None \/ Get(o) = 0

\* (a variant without the try/catch: the request's own error escapes)
FetchLedgerMetadataCatch_Rethrow == TransportError

\* the error _fetchLedgerMetadata throws when its request throws
FetchLedgerMetadataCatch == ExternalError

\* the error _fetchLedgerMetadata throws on a response, "none" if it returns
FetchLedgerMetadataError(m) ==
  IF m.status /= 200 THEN ExternalError
  ELSE IF m.body = None THEN TypeError
  ELSE IF Falsy(Get(m.body).precision) \/ Falsy(Get(m.body).scale)
         THEN ExternalError
  ELSE "none"

\* (a variant that checks presence only, not the scheme)
UrlOk_PresenceOnly(service, url) == url /= Str_empty

\* the check of one service url
UrlOk(service, url) ==
  /\ url /= Str_empty
  /\ IF service = "account_transfers"
       THEN IndexOfIsZero(url, <<"w", "s">>)
       ELSE IndexOfIsZero(url, <<"h", "t", "t", "p">>)

\* the error parseAndValidateLedgerUrls throws, "none" if it returns
ParseAndValidateLedgerUrlsError(metadataUrls) ==
  IF metadataUrls = None THEN ExternalError
  ELSE IF \E s \in REQUIRED_LEDGER_URLS : ~UrlOk(s, Get(metadataUrls)[s])
         THEN ExternalError
  ELSE "none"

\* the map parseAndValidateLedgerUrls returns
ParseAndValidateLedgerUrls(metadataUrls) ==
  [s \in REQUIRED_LEDGER_URLS |-> Get(metadataUrls)[s]]

\* this.configPrefix || ledgerMetadata.ilp_prefix
SetPrefix(cfg, ledgerPrefix) == IF cfg /= Nil THEN cfg ELSE ledgerPrefix

\* ------------------------------------------------------------------------
\* Promises and the handlers _connect registers
\* ------------------------------------------------------------------------
\* resolve / reject: the first settlement wins
Settle(res, c, v) == IF res[c] = "none" THEN [res EXCEPT ![c] = v] ELSE res

\* a handler works on h = [connected, lastEvent, result]; c is the connect()
\* call whose promise the handler's closure holds

\* ws.on('open')
WsOnOpen(h, c) == [h EXCEPT !.result = Settle(h.result, c, "ok")]

\* ws.on('error')
WsOnError(h, c) == [h EXCEPT !.result = Settle(h.result, c, UnreachableError)]

\* (a variant that rejects on every close)
WsOnClose_Unguarded(h, c) ==
  [h EXCEPT !.result = Settle(h.result, c, UnreachableError)]

\* ws.on('close')
WsOnClose(h, c) ==
  IF h.connected
    THEN [h EXCEPT !.result = Settle(h.result, c, UnreachableError)]
    ELSE h

\* (a variant that takes the emitter's 'connect' for the stream's 'open')
EmitterOnConnect_Resolves(h, c) ==
  [h EXCEPT !.connected = TRUE, !.lastEvent = "connect",
            !.result = Settle(h.result, c, "ok")]

\* this.connection.on('connect')
EmitterOnConnect(h, c) ==
  [h EXCEPT !.connected = TRUE, !.lastEvent = "connect"]

\* (a variant that emits 'disconnect' and leaves the flag alone)
EmitterOnDisconnect_KeepsFlag(h, c) == [h EXCEPT !.lastEvent = "disconnect"]

\* this.connection.on('disconnect')
EmitterOnDisconnect(h, c) ==
  [h EXCEPT !.connected = FALSE, !.lastEvent = "disconnect"]

\* this.connection.on('error')
EmitterOnError(h, c) == [h EXCEPT !.result = Settle(h.result, c, TransportError)]


\* ------------------------------------------------------------------------
\* reconnect-core, as _connect uses it ({immediate: true})
\* ------------------------------------------------------------------------
\* a world w = [em, streams, h] is what the library and the handlers work on
World == [em |-> em, streams |-> streams,
          h |-> [connected |-> connected, lastEvent |-> lastEvent,
                 result |-> result]]

\* new WebSocket(notificationsUrl, options), with the library's 'error' and
\* 'close' listeners and the plugin's listeners on it
NewStream(e) ==
  [owner |-> e, state |-> "connecting", everOpen |-> FALSE,
   userClosed |-> FALSE, errListener |-> TRUE, closeListener |-> TRUE]

\* attempt(): a new connection, announced at once as 'connect'
Attempt(w, e) ==
  IF w.em[e].connected \/ ~w.em[e].reconnect
    THEN w
    ELSE [em |-> [w.em EXCEPT ![e].conn = Len(w.streams) + 1,
                              ![e].connected = TRUE],
          streams |-> Append(w.streams, NewStream(e)),
          h |-> EmitterOnConnect(w.h, e)]

\* whether attempt() would create a connection
AttemptCreates(w, e) == ~w.em[e].connected /\ w.em[e].reconnect

\* onDisconnect(): 'disconnect' is emitted, then the backoff timer is started
OnDisconnect(w, e, s) ==
  [em |-> [w.em EXCEPT ![e].connected = FALSE,
                       ![e].backoff = IF w.em[e].reconnect THEN TRUE ELSE @],
   streams |-> [w.streams EXCEPT ![s].closeListener = FALSE],
   h |-> EmitterOnDisconnect(w.h, e)]

\* onError(): 'error' is emitted on the emitter, then onDisconnect() runs
OnError(w, e, s) ==
  OnDisconnect([em |-> w.em,
                streams |-> [w.streams EXCEPT ![s].errListener = FALSE],
                h |-> EmitterOnError(w.h, e)], e, s)

\* the world becomes the next state
Commit(w) ==
  /\ em' = w.em
  /\ streams' = w.streams
  /\ connected' = w.h.connected
  /\ lastEvent' = w.h.lastEvent
  /\ result' = w.h.result

\* reconnect(...) and .connect(): the emitter of call c, and its first attempt
NewEmitter ==
  [exists |-> TRUE, connected |-> FALSE, reconnect |-> TRUE,
   conn |-> 0, backoff |-> FALSE]

\* ------------------------------------------------------------------------
\* _connect, from the ledger root request on
\* ------------------------------------------------------------------------
\* _connect does not read the account response again once the ledger root
\* request has settled
ForgetRes(c) ==
  /\ rrRes' = [rrRes EXCEPT ![c] = NoResponse]
  /\ connRes' = [connRes EXCEPT ![c] = NoResponse]

\* the ledger root request throws
MetadataTransportFailure(c) ==
  /\ pc[c] = "metadata"
  /\ metaFailed' = [metaFailed EXCEPT ![c] = TRUE]
  /\ pc' = [pc EXCEPT ![c] = "done"]
  /\ result' = [result EXCEPT ![c] = FetchLedgerMetadataCatch]
  /\ ForgetRes(c)
  /\ UNCHANGED <<opVars, pluginVars, connection, connected, lastEvent, delay, lastWait,
                 prevWait, em, streams, quiesced>>

\* the error _connect ends with after the ledger root response m, "none" if it
\* goes on to open the stream
SetupError(m, cfg) ==
  IF FetchLedgerMetadataError(m) /= "none" THEN FetchLedgerMetadataError(m)
  ELSE IF ParseAndValidateLedgerUrlsError(Get(m.body).urls) /= "none"
         THEN ParseAndValidateLedgerUrlsError(Get(m.body).urls)
  ELSE IF SetPrefix(cfg, Get(m.body).ilp_prefix) = Nil THEN PrefixError
  ELSE "none"

\* the ledger root request is answered: _connect validates, sets urls and
\* prefix, creates the emitter and starts its first attempt
MetadataResponse(c, m) ==
  /\ pc[c] = "metadata"
  /\ urls' = IF /\ FetchLedgerMetadataError(m) = "none"
                /\ ParseAndValidateLedgerUrlsError(Get(m.body).urls) = "none"
               THEN Some(ParseAndValidateLedgerUrls(Get(m.body).urls))
               ELSE urls
  /\ prefix' = IF /\ FetchLedgerMetadataError(m) = "none"
                  /\ ParseAndValidateLedgerUrlsError(Get(m.body).urls) = "none"
                 THEN SetPrefix(configPrefix, Get(m.body).ilp_prefix)
                 ELSE prefix
  /\ IF SetupError(m, configPrefix) /= "none"
       THEN /\ pc' = [pc EXCEPT ![c] = "done"]
            /\ result' = [result EXCEPT ![c] = SetupError(m, configPrefix)]
            /\ UNCHANGED <<connection, connected, lastEvent, em, streams>>
       ELSE /\ Len(streams) < MaxStreams
            /\ pc' = [pc EXCEPT ![c] = "stream"]
            /\ connection' = c
            /\ Commit(Attempt([World EXCEPT !.em[c] = NewEmitter], c))
  /\ ForgetRes(c)
  /\ UNCHANGED <<opVars, configPrefix, host, username, delay, lastWait, prevWait,
                 metaFailed, quiesced>>

\* ------------------------------------------------------------------------
\* The stream's events
\* ------------------------------------------------------------------------
\* 'open' on stream s
WsOpen(s) ==
  /\ s \in 1..Len(streams)
  /\ streams[s].state = "connecting"
  /\ Commit([World EXCEPT !.streams[s].state = "open",
                          !.streams[s].everOpen = TRUE,
                          !.h = WsOnOpen(World.h, streams[s].owner)])
  /\ UNCHANGED <<opVars, pluginVars, connection, pc, retryVars, metaFailed, quiesced>>

\* 'error' on stream s: the library's listener first, then the plugin's
WsError(s) ==
  /\ s \in 1..Len(streams)
  /\ streams[s].state \in {"connecting", "open", "closing"}
  /\ streams[s].errListener
  /\ LET e == streams[s].owner
         w1 == OnError(World, e, s)
         w2 == [w1 EXCEPT !.streams[s].state = "closing",
                          !.h = WsOnError(w1.h, e)]
     IN Commit(w2)
  /\ UNCHANGED <<opVars, pluginVars, connection, pc, retryVars, metaFailed, quiesced>>

\* 'close' on stream s: the library's listener (if still there), then the
\* plugin's
WsClose(s) ==
  /\ s \in 1..Len(streams)
  /\ streams[s].state /= "closed"
  /\ LET e == streams[s].owner
         w1 == IF streams[s].closeListener THEN OnDisconnect(World, e, s)
               ELSE World
         w2 == [w1 EXCEPT !.streams[s].state = "closed",
                          !.h = WsOnClose(w1.h, e)]
     IN Commit(w2)
  /\ UNCHANGED <<opVars, pluginVars, connection, pc, retryVars, metaFailed, quiesced>>

\* the backoff timer of emitter e fires: attempt()
BackoffReady(e) ==
  /\ em[e].exists
  /\ em[e].backoff
  /\ AttemptCreates(World, e) => Len(streams) < MaxStreams
  /\ Commit(Attempt([World EXCEPT !.em[e].backoff = FALSE], e))
  /\ UNCHANGED <<opVars, pluginVars, connection, pc, retryVars, metaFailed, quiesced>>

\* ------------------------------------------------------------------------
\* disconnect
\* ------------------------------------------------------------------------
\* ws.close(): nothing happens to a stream that is closed or closing
CloseStream(st) ==
  IF st.state \in {"connecting", "open"}
    THEN [st EXCEPT !.state = "closing", !.userClosed = TRUE]
    ELSE st

Disconnect ==
  /\ quiesced' = (quiesced \/ \E c \in Calls : pc[c] /= "idle")
  /\ IF connection = 0
       THEN UNCHANGED <<connection, em, streams>>
       ELSE /\ connection' = 0
            /\ em' = [em EXCEPT ![connection].reconnect = FALSE]
            /\ streams' =
                 IF em[connection].conn /= 0
                   THEN [streams EXCEPT ![em[connection].conn] = CloseStream(@)]
                   ELSE streams
  /\ UNCHANGED <<opVars, pluginVars, connected, lastEvent, pc, retryVars, metaFailed,
                 result>>

\* ------------------------------------------------------------------------
\* The specification
\* ------------------------------------------------------------------------
Next ==
  \/ \E c \in Calls : ConnectCall(c)
  \/ \E c \in Calls : delay[c] < DelayAfter(MaxRetries) /\ AccountTransportFailure(c)
  \/ \E c \in Calls : BackoffDone(c)
  \/ \E c \in Calls, r \in AccountResponses : AccountResponse(c, r)
  \/ \E c \in Calls : MetadataTransportFailure(c)
  \/ \E c \in Calls, m \in MetaResponses : MetadataResponse(c, m)
  \/ \E s \in 1..MaxStreams : WsOpen(s)
  \/ \E s \in 1..MaxStreams : WsError(s)
  \/ \E s \in 1..MaxStreams : WsClose(s)
  \/ \E e \in Calls : BackoffReady(e)
  \/ Disconnect

Spec == Init /\ [][Next]_vars


\* the account-resolution loop on its own: connect() calls and what their
\* account requests meet, with no bound on the transport failures
NextRetry ==
  \/ \E c \in Calls : ConnectCall(c)
  \/ \E c \in Calls : AccountTransportFailure(c)
  \/ \E c \in Calls : BackoffDone(c)
  \/ \E c \in Calls, r \in AccountResponses : AccountResponse(c, r)

\* the account request is eventually answered, and timers fire
SpecRetry ==
  /\ Init /\ [][NextRetry]_vars
  /\ \A c \in Calls : SF_vars(\E r \in AccountResponses : AccountResponse(c, r))
  /\ \A c \in Calls : WF_vars(BackoffDone(c))

\* ------------------------------------------------------------------------
\* parseAndValidateLedgerUrls on its own
\* ------------------------------------------------------------------------
\* parseAndValidateLedgerUrls(metadataUrls) is about to be called
InitUrls ==
  /\ InitConnection
  /\ info = None
  /\ gi = [g \in InfoCalls |-> NoInfoCall]
  /\ note = NoNote
  /\ op \in {[name |-> "parseAndValidateLedgerUrls", metadataUrls |-> u,
              error |-> "pending", urls |-> None] : u \in MetadataUrlsInputs}

\* the call: it throws, or returns the map that _connect assigns to this.urls
ParseAndValidateLedgerUrlsCall ==
  /\ op.name = "parseAndValidateLedgerUrls"
  /\ op.error = "pending"
  /\ op' = [op EXCEPT
              !.error = ParseAndValidateLedgerUrlsError(op.metadataUrls),
              !.urls = IF ParseAndValidateLedgerUrlsError(op.metadataUrls) = "none"
                         THEN Some(ParseAndValidateLedgerUrls(op.metadataUrls))
                         ELSE None]
  /\ UNCHANGED <<pluginVars, connection, connected, lastEvent, pc, retryVars,
                 metaFailed, result, em, streams, quiesced, info, gi, note>>

NextUrls == ParseAndValidateLedgerUrlsCall

SpecUrls == InitUrls /\ [][NextUrls]_vars

\* ------------------------------------------------------------------------
\* getInfo
\* ------------------------------------------------------------------------
\* the object _getInfo builds from the ledger root body and keeps in this.info
InfoOf(body) == [precision |-> Get(body.precision), scale |-> Get(body.scale)]

\* a getInfo() call: the cached object is returned, or _fetchLedgerMetadata
\* issues the ledger root request (which fails without a request when
\* this.host is not set: the catch turns that into ExternalError)
GetInfoCall(g) ==
  /\ gi[g].pc = "idle"
  /\ IF g = 1 THEN TRUE ELSE gi[g - 1].pc /= "idle"
  /\ gi' = [gi EXCEPT ![g] =
       IF info /= None
         THEN [pc |-> "done", result |-> "ok", value |-> info, calls |-> 0,
               afterResolved |-> TRUE]
       ELSE IF host = Nil
         THEN [pc |-> "done", result |-> FetchLedgerMetadataCatch,
               value |-> None, calls |-> 0, afterResolved |-> urls /= None]
       ELSE [pc |-> "fetch", result |-> "none", value |-> None, calls |-> 1,
             afterResolved |-> urls /= None]]
  /\ UNCHANGED <<pluginVars, connection, connected, lastEvent, pc, retryVars,
                 metaFailed, result, em, streams, quiesced, info, op, note>>

\* the ledger root request of getInfo() call g throws
GetInfoTransportFailure(g) ==
  /\ gi[g].pc = "fetch"
  /\ gi' = [gi EXCEPT ![g].pc = "done", ![g].result = FetchLedgerMetadataCatch]
  /\ UNCHANGED <<pluginVars, connection, connected, lastEvent, pc, retryVars,
                 metaFailed, result, em, streams, quiesced, info, op, note>>

\* the ledger root request of getInfo() call g is answered
GetInfoResponse(g, m) ==
  /\ gi[g].pc = "fetch"
  /\ IF FetchLedgerMetadataError(m) /= "none"
       THEN /\ gi' = [gi EXCEPT ![g].pc = "done",
                                ![g].result = FetchLedgerMetadataError(m)]
            /\ info' = info
       ELSE /\ info' = Some(InfoOf(Get(m.body)))
            /\ gi' = [gi EXCEPT ![g].pc = "done", ![g].result = "ok",
                                ![g].value = Some(InfoOf(Get(m.body)))]
  /\ UNCHANGED <<pluginVars, connection, connected, lastEvent, pc, retryVars,
                 metaFailed, result, em, streams, quiesced, op, note>>

\* getInfo() calls around one connect() call
NextInfo ==
  \/ ConnectCall(1)
  \/ \E r \in AccountResponses : AccountResponse(1, r)
  \/ MetadataTransportFailure(1)
  \/ \E m \in MetaResponses : MetadataResponse(1, m)
  \/ \E g \in InfoCalls : GetInfoCall(g)
  \/ \E g \in InfoCalls : GetInfoTransportFailure(g)
  \/ \E g \in InfoCalls, m \in MetaResponses : GetInfoResponse(g, m)

SpecInfo == Init /\ [][NextInfo]_vars

\* ------------------------------------------------------------------------
\* Notifications: values
\* ------------------------------------------------------------------------
UnrelatedNotificationError == "UnrelatedNotificationError"

\* a uri is kept as parseURL(uri).path.split('/'); every url of the model has
\* the path of the ledger's account template when it is read as one
AccountTemplatePath == <<"", "accounts", ":name">>
AccountUri(name) == <<"", "accounts", name>>
\* this.credentials.account
CredentialsAccount == AccountUri("alice")
AccountUris == {AccountUri("alice"), AccountUri("bob")}

\* ledger-native transfer ids: a url that ends with a 36-character uuid, and
\* an id shorter than that
Uuid == [i \in 1..36 |-> IF i \in {9, 14, 19, 24} THEN "-" ELSE "a"]
LongId == <<"h", "/", "t", "/">> \o Uuid
ShortId == <<"t", "1">>

\* base64 texts of rejection messages and what they decode to
Base64Decode(text) ==
  CASE text = "bm8=" -> "no"
    [] text = "bGF0ZQ==" -> "late"
    [] OTHER -> ""

\* the entries of credits and debits (a credit flagged rejected carries its
\* rejection message), and the transfers the ledger notifies
Credits ==
  {[account |-> a, amount |-> "10", rejected |-> FALSE, rejection_message |-> Nil] :
     a \in AccountUris}
  \cup {[account |-> a, amount |-> "10", rejected |-> TRUE,
         rejection_message |-> "bm8="] : a \in AccountUris}
Debits == {[account |-> a, amount |-> "10"] : a \in AccountUris}
SeqsUpTo(S, n) == UNION {[1..k -> S] : k \in 1..n}
Transfers ==
  [id : {LongId, ShortId},
   ledger : {"http://ledger", "http://other"},
   state : {"proposed", "prepared", "executed", "rejected"},
   credits : SeqsUpTo(Credits, MaxParties),
   debits : SeqsUpTo(Debits, MaxParties),
   execution_condition : {Nil, "cc:0:3:c"}]
\* notification.related_resources
RelatedResources ==
  {None}
  \cup {Some([execution_condition_fulfillment |-> e,
              cancellation_condition_fulfillment |-> c]) :
          e \in {Nil, "cf:0:e"}, c \in {Nil, "cf:0:c"}}
\* the resource of a 'message' notification
Messages ==
  [ledger : {"http://ledger", "http://other"}, account : AccountUris]
\* what JSON.parse(msg) gives, or "malformed" when it throws
Frames ==
  {[type |-> "malformed", resource |-> Nil, related |-> None]}
  \cup {[type |-> y, resource |-> Nil, related |-> None] : y \in {"connect", "bogus"}}
  \cup {[type |-> "message", resource |-> m, related |-> None] : m \in Messages}
  \cup {[type |-> "transfer", resource |-> t, related |-> rr] :
          t \in Transfers, rr \in RelatedResources}

\* ------------------------------------------------------------------------
\* _handleNotification and what it calls
\* ------------------------------------------------------------------------
\* _validateTransfer: its body is a comment
ValidateTransfer(transfer, hst) == "none"

\* (a variant that accepts the messages of every ledger)
ValidateMessage_NoCheck(message, hst) == "none"

\* _validateMessage
ValidateMessage(message, hst) ==
  IF message.ledger /= hst THEN UnrelatedNotificationError ELSE "none"

\* String.prototype.substring(start): a negative start is 0
Substring(s, start) ==
  SubSeq(s, (IF start < 0 THEN 0 ELSE start) + 1, Len(s))

\* (a variant that keeps the first 36 characters)
CanonicalId_First36(id) == SubSeq(id, 1, Min(36, Len(id)))

\* fiveBellsTransfer.id.substring(fiveBellsTransfer.id.length - 36)
CanonicalId(id) == Substring(id, Len(id) - 36)

\* accountUriToName: the segment of the uri's path at the place of ':name' in
\* the template's path, undefined if there is none
AccountUriToName(accountURI) ==
  IF \E i \in 1..Len(AccountTemplatePath) : AccountTemplatePath[i] = ":name"
    THEN LET i == CHOOSE k \in 1..Len(AccountTemplatePath) :
                    /\ AccountTemplatePath[k] = ":name"
                    /\ \A j \in 1..(k - 1) : AccountTemplatePath[j] /= ":name"
         IN IF i <= Len(accountURI) THEN accountURI[i] ELSE Nil
    ELSE Nil

\* the canonical transfer built for a matching credit
IncomingTransfer(t, credit, px) ==
  [id |-> CanonicalId(t.id), direction |-> "incoming",
   account |-> <<px, AccountUriToName(t.debits[1].account)>>,
   ledger |-> px, amount |-> credit.amount,
   executionCondition |-> t.execution_condition]

\* the canonical transfer built for a matching debit
OutgoingTransfer(t, debit, px) ==
  [id |-> CanonicalId(t.id), direction |-> "outgoing",
   account |-> <<px, AccountUriToName(t.credits[1].account)>>,
   ledger |-> px, amount |-> debit.amount,
   executionCondition |-> t.execution_condition]

Event(name, transfer, arg) == [name |-> name, transfer |-> transfer, arg |-> arg]

\* (a variant that emits _transfer for every executed transfer)
EmitsTransfer_Unconditional(t, transfer) == t.state = "executed"

\* state === 'executed' && !transfer.executionCondition
EmitsTransfer(t, transfer) ==
  t.state = "executed" /\ transfer.executionCondition = Nil

\* (a variant that emits _fulfill for conditional transfers only)
EmitsFulfill_OnlyConditional(t, rr) ==
  /\ t.state = "executed" /\ t.execution_condition /= Nil
  /\ rr /= None /\ Get(rr).execution_condition_fulfillment /= Nil

\* state === 'executed' && relatedResources &&
\* relatedResources.execution_condition_fulfillment
EmitsFulfill(t, rr) ==
  /\ t.state = "executed"
  /\ rr /= None /\ Get(rr).execution_condition_fulfillment /= Nil

\* (a variant that looks at the first credit only)
RejectedCredit_First(t) ==
  IF t.credits[1].rejected THEN Some(t.credits[1]) ELSE None

\* find(fiveBellsTransfer.credits, 'rejected')
RejectedCredit(t) ==
  IF \E i \in 1..Len(t.credits) : t.credits[i].rejected
    THEN Some(t.credits[CHOOSE i \in 1..Len(t.credits) :
                          /\ t.credits[i].rejected
                          /\ \A j \in 1..(i - 1) : ~t.credits[j].rejected])
    ELSE None

\* the if / else-if on state 'rejected'
RejectedEvents(dir, t, rr, transfer) ==
  IF t.state = "rejected" /\ rr /= None
     /\ Get(rr).cancellation_condition_fulfillment /= Nil
    THEN <<Event(dir \o "_cancel", transfer,
                 Get(rr).cancellation_condition_fulfillment)>>
  ELSE IF t.state = "rejected"
    THEN IF RejectedCredit(t) /= None
           THEN <<Event(dir \o "_reject", transfer,
                        Base64Decode(Get(RejectedCredit(t)).rejection_message))>>
           ELSE <<Event(dir \o "_cancel", transfer, "transfer timed out.")>>
  ELSE <<>>

\* the events emitted for one matching credit or debit, in order
SideEvents(dir, t, rr, transfer) ==
  (IF t.state = "prepared"
     THEN <<Event(dir \o "_prepare", transfer, Nil)>> ELSE <<>>)
  \o (IF EmitsTransfer(t, transfer)
        THEN <<Event(dir \o "_transfer", transfer, Nil)>> ELSE <<>>)
  \o (IF EmitsFulfill(t, rr)
        THEN <<Event(dir \o "_fulfill", transfer,
                     Get(rr).execution_condition_fulfillment)>> ELSE <<>>)
  \o RejectedEvents(dir, t, rr, transfer)

\* for (let credit of fiveBellsTransfer.credits), from entry i on
RECURSIVE CreditsLoop(_, _, _, _)
CreditsLoop(t, rr, px, i) ==
  IF i > Len(t.credits) THEN <<>>
  ELSE (IF t.credits[i].account = CredentialsAccount
          THEN SideEvents("incoming", t, rr, IncomingTransfer(t, t.credits[i], px))
          ELSE <<>>)
       \o CreditsLoop(t, rr, px, i + 1)

\* (a variant that stops at the first debit that names the account)
RECURSIVE DebitsLoop_StopAtFirst(_, _, _, _)
DebitsLoop_StopAtFirst(t, rr, px, i) ==
  IF i > Len(t.debits) THEN <<>>
  ELSE IF t.debits[i].account = CredentialsAccount
    THEN SideEvents("outgoing", t, rr, OutgoingTransfer(t, t.debits[i], px))
  ELSE DebitsLoop_StopAtFirst(t, rr, px, i + 1)

\* for (let debit of fiveBellsTransfer.debits), from entry i on
RECURSIVE DebitsLoop(_, _, _, _)
DebitsLoop(t, rr, px, i) ==
  IF i > Len(t.debits) THEN <<>>
  ELSE (IF t.debits[i].account = CredentialsAccount
          THEN SideEvents("outgoing", t, rr, OutgoingTransfer(t, t.debits[i], px))
          ELSE <<>>)
       \o DebitsLoop(t, rr, px, i + 1)

\* (a variant in which only a credit marks the notification as handled)
Handled_CreditsOnly(t) ==
  \E i \in 1..Len(t.credits) : t.credits[i].account = CredentialsAccount

\* handled: some credit or some debit names this.credentials.account
Handled(t) ==
  \/ \E i \in 1..Len(t.credits) : t.credits[i].account = CredentialsAccount
  \/ \E i \in 1..Len(t.debits) : t.debits[i].account = CredentialsAccount

\* (a variant that ends without an error)
NotHandledError_Silent(handled) == "none"

\* if (!handled) throw new UnrelatedNotificationError(...)
NotHandledError(handled) ==
  IF handled THEN "none" ELSE UnrelatedNotificationError

\* _handleTransferNotification: the events it emits and the error it throws
HandleTransferNotification(t, rr, px, hst) ==
  IF ValidateTransfer(t, hst) /= "none"
    THEN [events |-> <<>>, error |-> ValidateTransfer(t, hst)]
    ELSE [events |-> CreditsLoop(t, rr, px, 1) \o DebitsLoop(t, rr, px, 1),
          error |-> NotHandledError(Handled(t))]

\* _handleMessageNotification
HandleMessageNotification(message, px, hst) ==
  IF ValidateMessage(message, hst) /= "none"
    THEN [events |-> <<>>, error |-> ValidateMessage(message, hst)]
    ELSE [events |-> <<[name |-> "incoming_message", ledger |-> px,
                        account |-> <<px, AccountUriToName(message.account)>>]>>,
          error |-> "none"]

\* _handleNotification
HandleNotification(f, px, hst) ==
  IF f.type = "connect" THEN [events |-> <<>>, error |-> "none"]
  ELSE IF f.type = "transfer"
    THEN HandleTransferNotification(f.resource, f.related, px, hst)
  ELSE IF f.type = "message"
    THEN HandleMessageNotification(f.resource, px, hst)
  ELSE [events |-> <<>>, error |-> UnrelatedNotificationError]

\* ws.on('message') on stream s: a frame that does not parse is dropped, any
\* other is handled (the handler's events are awaited one after the other; it
\* writes no field of the adapter)
WsMessage(s, f) ==
  /\ s \in 1..Len(streams)
  /\ streams[s].state = "open"
  /\ note' = IF f.type = "malformed"
               THEN [type |-> f.type, resource |-> f.resource,
                     related |-> f.related, events |-> <<>>, error |-> "none",
                     host |-> host]
               ELSE [type |-> f.type, resource |-> f.resource,
                     related |-> f.related,
                     events |-> HandleNotification(f, prefix, host).events,
                     error |-> HandleNotification(f, prefix, host).error,
                     host |-> host]
  /\ UNCHANGED <<pluginVars, connection, connected, lastEvent, pc, retryVars,
                 metaFailed, result, em, streams, quiesced, info, gi, op>>

\* one connect() call, its stream opening, and a frame the stream delivers
\* (the handler keeps nothing from one frame to the next, so one is explored)
NextNotify ==
  \/ ConnectCall(1)
  \/ \E r \in AccountResponses : AccountResponse(1, r)
  \/ \E m \in MetaResponses : MetadataResponse(1, m)
  \/ \E s \in 1..MaxStreams : WsOpen(s)
  \/ note = NoNote /\ \E s \in 1..MaxStreams, f \in Frames : WsMessage(s, f)

SpecNotify == Init /\ [][NextNotify]_vars

\* ------------------------------------------------------------------------
\* Operations: values
\* ------------------------------------------------------------------------
InvalidFieldsError          == "InvalidFieldsError"
NotAcceptedError            == "NotAcceptedError"
DuplicateIdError            == "DuplicateIdError"
TransferNotFoundError       == "TransferNotFoundError"
TransferNotConditionalError == "TransferNotConditionalError"
MissingFulfillmentError     == "MissingFulfillmentError"
AlreadyRolledBackError      == "AlreadyRolledBackError"
AlreadyFulfilledError       == "AlreadyFulfilledError"
\* new Error(...) of getPrefix and of the case registration
PrefixNotSetError           == "Error: Prefix has not been set"
UnexpectedStatusError       == "Error: Unexpected status code"

\* an ILP address is kept as <<its ledger part, its remainder>>
Addresses == {<<px, "bob">> : px \in {"example.red.", "cfg.", "other."}}
\* transfer.account / message.account: a string (an address) or not a string
AccountArgs ==
  {[type |-> "string", address |-> a] : a \in Addresses}
  \cup {[type |-> "undefined", address |-> <<Nil, Nil>>]}
\* transfer.amount: a string (its characters) or a value of another type
AmountArgs ==
  {[type |-> "string", chars |-> s] :
     s \in {<<"1", "0">>, <<"0">>, <<"-", "5">>, <<"a", "b", "c">>,
            <<"1", "x">>, <<>>}}
  \cup {[type |-> y, chars |-> <<>>] : y \in {"number", "undefined"}}

\* what a request meets: it throws, or a response with a status and, when it
\* has a JSON body, the body's id and message
RejectedMessage == "Transfers in state rejected may not be executed"
ErrorIds ==
  {"InvalidBodyError", "InvalidModificationError", "UnmetConditionError",
   "TransferNotConditionalError", "NotFoundError", "UnauthorizedError",
   "MissingFulfillmentError", "TransferNotFoundError", "AlreadyRolledBackError",
   "OtherError"}
Thrown == [kind |-> "thrown", status |-> 0, body |-> None]
Response(status, body) == [kind |-> "response", status |-> status, body |-> body]
Outcomes ==
  {Thrown}
  \cup {Response(st, None) : st \in {200, 201, 400, 404, 500}}
  \cup {Response(st, Some([id |-> i, message |-> "m"])) :
          st \in {200, 400, 500}, i \in ErrorIds}
  \cup {Response(400, Some([id |-> "InvalidModificationError",
                            message |-> RejectedMessage]))}
\* what the transfer PUT and the case registrations of sendTransfer meet
PutOutcomes ==
  {o \in Outcomes :
     o.body /= None
       => Get(o.body).id \in {"InvalidBodyError", "InvalidModificationError",
                              "OtherError"} /\ Get(o.body).message = "m"}
CaseOutcomes == {Thrown, Response(200, None), Response(404, None)}

\* ------------------------------------------------------------------------
\* Operations
\* ------------------------------------------------------------------------
\* an operation's outcome: how its promise settles and how many requests it
\* issued
Done(res, n) == [result |-> res, calls |-> n]

DigitChars == {"0", "1", "2", "3", "4", "5", "6", "7", "8", "9"}
DigitValue(ch) ==
  CASE ch = "0" -> 0 [] ch = "1" -> 1 [] ch = "2" -> 2 [] ch = "3" -> 3
    [] ch = "4" -> 4 [] ch = "5" -> 5 [] ch = "6" -> 6 [] ch = "7" -> 7
    [] ch = "8" -> 8 [] ch = "9" -> 9
IsDigits(s) == Len(s) > 0 /\ \A i \in 1..Len(s) : s[i] \in DigitChars
RECURSIVE Decimal(_)
Decimal(s) ==
  IF s = <<>> THEN 0
  ELSE 10 * Decimal(SubSeq(s, 1, Len(s) - 1)) + DigitValue(s[Len(s)])

\* the unary + on a string: None is NaN
ToNumber(s) ==
  IF s = <<>> THEN Some(0)
  ELSE IF IsDigits(s) THEN Some(Decimal(s))
  ELSE IF s[1] = "-" /\ IsDigits(Tail(s)) THEN Some(0 - Decimal(Tail(s)))
  ELSE None

\* typeof transfer.amount !== 'string' || +transfer.amount <= 0
InvalidAmount(amount) ==
  \/ amount.type /= "string"
  \/ (ToNumber(amount.chars) /= None /\ Get(ToNumber(amount.chars)) <= 0)

\* parseAddress (with getPrefix): the error it throws, "none" if it returns
ParseAddressError(address, px) ==
  IF px = Nil THEN PrefixNotSetError
  ELSE IF address[1] /= px THEN InvalidFieldsError
  ELSE "none"

\* the case registrations: for (let caseUri of transfer.cases), from case i on,
\* after n requests
RECURSIVE CasesLoop(_, _, _)
CasesLoop(caseOutcomes, i, n) ==
  IF i > Len(caseOutcomes) THEN Done("none", n)
  ELSE IF caseOutcomes[i].kind = "thrown" THEN Done(TransportError, n + 1)
  ELSE IF caseOutcomes[i].status /= 200 THEN Done(UnexpectedStatusError, n + 1)
  ELSE CasesLoop(caseOutcomes, i + 1, n + 1)

\* what _sendTransfer does with the response to its PUT
SendTransferResponseError(o) ==
  IF o.status >= 400
    THEN IF o.body = None THEN TypeError
         ELSE IF Get(o.body).id = "InvalidBodyError" THEN InvalidFieldsError
         ELSE IF Get(o.body).id = "InvalidModificationError" THEN DuplicateIdError
         ELSE NotAcceptedError
    ELSE "ok"

\* _sendTransfer(transfer): transfer.cases has one entry per case outcome
SendTransferResult(transfer, caseOutcomes, o, u, px) ==
  IF transfer.account.type /= "string" THEN Done(InvalidFieldsError, 0)
  ELSE IF InvalidAmount(transfer.amount) THEN Done(InvalidFieldsError, 0)
  ELSE IF ParseAddressError(transfer.account.address, px) /= "none"
    THEN Done(ParseAddressError(transfer.account.address, px), 0)
  ELSE IF u = None THEN Done(TypeError, 0)
  ELSE IF CasesLoop(caseOutcomes, 1, 0).result /= "none"
    THEN CasesLoop(caseOutcomes, 1, 0)
  ELSE IF o.kind = "thrown"
    THEN Done(TransportError, CasesLoop(caseOutcomes, 1, 0).calls + 1)
  ELSE Done(SendTransferResponseError(o), CasesLoop(caseOutcomes, 1, 0).calls + 1)

\* _sendMessage(message): message.data is kept as its typeof
SendMessageResult(message, o, u, px) ==
  IF message.ledger /= px THEN Done(InvalidFieldsError, 0)
  ELSE IF message.account.type /= "string" THEN Done(InvalidFieldsError, 0)
  ELSE IF message.data /= "object" THEN Done(InvalidFieldsError, 0)
  ELSE IF ParseAddressError(message.account.address, px) /= "none"
    THEN Done(ParseAddressError(message.account.address, px), 0)
  ELSE IF u = None THEN Done(TypeError, 0)
  ELSE IF o.kind = "thrown" THEN Done(TransportError, 1)
  ELSE IF o.status >= 400
    THEN IF o.body = None THEN Done(TypeError, 1)
         ELSE IF Get(o.body).id = "InvalidBodyError" THEN Done(InvalidFieldsError, 1)
         ELSE Done(NotAcceptedError, 1)
  ELSE Done("ok", 1)

\* _fulfillCondition: o.body is what getResponseJSON returns
FulfillConditionResult(o, u) ==
  IF u = None THEN Done(TypeError, 0)
  ELSE IF o.kind = "thrown" THEN Done(TransportError, 1)
  ELSE IF o.status >= 400 /\ o.body /= None
          /\ Get(o.body).id = "InvalidBodyError"
    THEN Done(InvalidFieldsError, 1)
  ELSE IF o.status >= 400 /\ o.body /= None
          /\ Get(o.body).id = "UnmetConditionError"
    THEN Done(NotAcceptedError, 1)
  ELSE IF o.status >= 400 /\ o.body /= None
          /\ Get(o.body).id = "TransferNotConditionalError"
    THEN Done(TransferNotConditionalError, 1)
  ELSE IF o.status >= 400 /\ o.body /= None /\ Get(o.body).id = "NotFoundError"
    THEN Done(TransferNotFoundError, 1)
  ELSE IF o.status >= 400 /\ o.body /= None
          /\ Get(o.body).id = "InvalidModificationError"
          /\ Get(o.body).message = RejectedMessage
    THEN Done(AlreadyRolledBackError, 1)
  ELSE IF o.status = 200 \/ o.status = 201 THEN Done("ok", 1)
  ELSE Done(ExternalError, 1)

\* _getFulfillment: the request, its uri included, is inside the try
GetFulfillmentResult(o, u) ==
  IF u = None THEN Done(ExternalError, 0)
  ELSE IF o.kind = "thrown" THEN Done(ExternalError, 1)
  ELSE IF o.status = 200 THEN Done("ok", 1)
  ELSE IF o.status >= 400 /\ o.body /= None
          /\ Get(o.body).id = "MissingFulfillmentError"
    THEN Done(MissingFulfillmentError, 1)
  ELSE IF o.status >= 400 /\ o.body /= None
          /\ Get(o.body).id = "TransferNotFoundError"
    THEN Done(TransferNotFoundError, 1)
  ELSE IF o.status >= 400 /\ o.body /= None
          /\ Get(o.body).id = "AlreadyRolledBackError"
    THEN Done(AlreadyRolledBackError, 1)
  ELSE IF o.status >= 400 /\ o.body /= None
          /\ Get(o.body).id = "TransferNotConditionalError"
    THEN Done(TransferNotConditionalError, 1)
  ELSE Done(ExternalError, 1)

\* _rejectIncomingTransfer: o.body is what getResponseJSON returns
RejectIncomingTransferResult(o, u) ==
  IF u = None THEN Done(TypeError, 0)
  ELSE IF o.kind = "thrown" THEN Done(TransportError, 1)
  ELSE IF o.status >= 400
    THEN IF o.body /= None /\ Get(o.body).id = "UnauthorizedError"
           THEN Done(NotAcceptedError, 1)
         ELSE IF o.body /= None /\ Get(o.body).id = "NotFoundError"
           THEN Done(TransferNotFoundError, 1)
         ELSE IF o.body /= None /\ Get(o.body).id = "InvalidModificationError"
           THEN Done(AlreadyFulfilledError, 1)
         ELSE IF o.body /= None /\ Get(o.body).id = "TransferNotConditionalError"
           THEN Done(TransferNotConditionalError, 1)
         ELSE Done(ExternalError, 1)
  ELSE Done("ok", 1)

\* _getBalance: a request that throws leaves res undefined
GetBalanceResult(o) ==
  IF o.kind = "thrown" \/ o.status /= 200 THEN Done(ExternalError, 1)
  ELSE IF o.body = None THEN Done(TypeError, 1)
  ELSE Done("ok", 1)

\* an operation is called and runs to its end: it writes no field of the
\* adapter, and reads this.urls, this.prefix and this.host
Operation(name, input, out) ==
  /\ op' = [name |-> name, input |-> input, result |-> out.result,
            calls |-> out.calls]
  /\ UNCHANGED <<pluginVars, connection, connected, lastEvent, pc, retryVars,
                 metaFailed, result, em, streams, quiesced, info, gi, note>>

SendTransfer(transfer, caseOutcomes, o) ==
  Operation("sendTransfer", [transfer |-> transfer, cases |-> Len(caseOutcomes)],
            SendTransferResult(transfer, caseOutcomes, o, urls, prefix))

SendMessage(message, o) ==
  Operation("sendMessage", message, SendMessageResult(message, o, urls, prefix))

FulfillCondition(o) ==
  Operation("fulfillCondition", Nil, FulfillConditionResult(o, urls))

GetFulfillment(o) ==
  Operation("getFulfillment", Nil, GetFulfillmentResult(o, urls))

RejectIncomingTransfer(o) ==
  Operation("rejectIncomingTransfer", Nil, RejectIncomingTransferResult(o, urls))

GetBalance(o) == Operation("getBalance", Nil, GetBalanceResult(o))

\* the arguments of sendTransfer and sendMessage
TransferArgs == [account : AccountArgs, amount : AmountArgs]
MessageArgs ==
  [ledger : {Nil, "example.red.", "other."}, account : AccountArgs,
   data : {"object", "undefined"}]

\* one connect() call and one operation, called in any state of the adapter
\* (an operation keeps nothing for the next, so one is explored)
NextOps ==
  \/ ConnectCall(1)
  \/ \E r \in AccountResponses : AccountResponse(1, r)
  \/ MetadataTransportFailure(1)
  \/ \E m \in MetaResponses : MetadataResponse(1, m)
  \/ op = NoOp /\ \E tr \in TransferArgs, cs \in SeqsUpTo(CaseOutcomes, MaxCases) \cup {<<>>},
                     o \in PutOutcomes : SendTransfer(tr, cs, o)
  \/ op = NoOp /\ \E msg \in MessageArgs, o \in PutOutcomes : SendMessage(msg, o)
  \/ op = NoOp /\ \E o \in Outcomes : FulfillCondition(o)
  \/ op = NoOp /\ \E o \in Outcomes : GetFulfillment(o)
  \/ op = NoOp /\ \E o \in Outcomes : RejectIncomingTransfer(o)
  \/ op = NoOp /\ \E o \in Outcomes : GetBalance(o)

SpecOps == Init /\ [][NextOps]_vars

\* ------------------------------------------------------------------------
\* _sendTransfer, request by request
\* ------------------------------------------------------------------------
\* the requests _sendTransfer issues
PostCase(i) == [method |-> "POST", case |-> i]
PutTransfer == [method |-> "PUT", case |-> 0]

\* what _sendTransfer throws before it issues a request, "none" if nothing
SendTransferValidationError(transfer, u, px) ==
  IF transfer.account.type /= "string" THEN InvalidFieldsError
  ELSE IF InvalidAmount(transfer.amount) THEN InvalidFieldsError
  ELSE IF ParseAddressError(transfer.account.address, px) /= "none"
    THEN ParseAddressError(transfer.account.address, px)
  ELSE IF u = None THEN TypeError
  ELSE "none"

\* (a variant that goes on after a registration that was answered, whatever
\* its status)
CaseRegistrationError_Lenient(o) ==
  IF o.kind = "thrown" THEN TransportError ELSE "none"

\* what the case loop throws on the outcome of a registration, "none" if it
\* goes on
CaseRegistrationError(o) ==
  IF o.kind = "thrown" THEN TransportError
  ELSE IF o.status /= 200 THEN UnexpectedStatusError
  ELSE "none"

\* sendTransfer(transfer) with n cases: the coroutine runs to its first
\* request (the first case registration, or the PUT when there is no case)
SendTransferStart(transfer, n) ==
  /\ op' = [name |-> "_sendTransfer", transfer |-> transfer, cases |-> n,
            responses |-> <<>>,
            pc |-> IF SendTransferValidationError(transfer, urls, prefix) /= "none"
                     THEN "done"
                   ELSE IF n > 0 THEN "case" ELSE "put",
            i |-> IF SendTransferValidationError(transfer, urls, prefix) = "none"
                     /\ n > 0 THEN 1 ELSE 0,
            log |-> IF SendTransferValidationError(transfer, urls, prefix) /= "none"
                      THEN <<>>
                    ELSE IF n > 0 THEN <<PostCase(1)>> ELSE <<PutTransfer>>,
            result |-> SendTransferValidationError(transfer, urls, prefix)]
  /\ UNCHANGED <<pluginVars, connection, connected, lastEvent, pc, retryVars,
                 metaFailed, result, em, streams, quiesced, info, gi, note>>

\* the registration on case op.i is answered, or its request throws
CaseRegistrationResponse(o) ==
  /\ op.name = "_sendTransfer"
  /\ op.pc = "case"
  /\ op' = IF CaseRegistrationError(o) /= "none"
             THEN [op EXCEPT !.responses = Append(@, o), !.pc = "done",
                             !.result = CaseRegistrationError(o)]
           ELSE IF op.i < op.cases
             THEN [op EXCEPT !.responses = Append(@, o), !.i = @ + 1,
                             !.log = Append(@, PostCase(op.i + 1))]
           ELSE [op EXCEPT !.responses = Append(@, o), !.pc = "put",
                           !.log = Append(@, PutTransfer)]
  /\ UNCHANGED <<pluginVars, connection, connected, lastEvent, pc, retryVars,
                 metaFailed, result, em, streams, quiesced, info, gi, note>>

\* the transfer PUT is answered, or its request throws
TransferPutResponse(o) ==
  /\ op.name = "_sendTransfer"
  /\ op.pc = "put"
  /\ op' = [op EXCEPT !.pc = "done",
                      !.result = IF o.kind = "thrown" THEN TransportError
                                 ELSE SendTransferResponseError(o)]
  /\ UNCHANGED <<pluginVars, connection, connected, lastEvent, pc, retryVars,
                 metaFailed, result, em, streams, quiesced, info, gi, note>>

\* one connect() call and one sendTransfer() call, request by request
NextSend ==
  \/ ConnectCall(1)
  \/ \E r \in AccountResponses : AccountResponse(1, r)
  \/ \E m \in MetaResponses : MetadataResponse(1, m)
  \/ op = NoOp /\ \E tr \in TransferArgs, n \in 0..MaxCases : SendTransferStart(tr, n)
  \/ \E o \in CaseOutcomes : CaseRegistrationResponse(o)
  \/ \E o \in PutOutcomes : TransferPutResponse(o)

SpecSend == Init /\ [][NextSend]_vars

\* ------------------------------------------------------------------------
\* _fetchLedgerMetadata as a function of the outcome of its request
\* ------------------------------------------------------------------------
\* numeric values of precision and scale
MetaNumbers == {0, 1, 2, 10}
MetaFields == {None} \cup {Some(v) : v \in MetaNumbers}
\* outcomes of the GET of the ledger root: the request throws, or a response
\* with no body or with a body whose precision and scale are absent or numeric
MetadataOutcomes ==
  {Thrown}
  \cup {Response(s, b) :
          s \in {200, 404, 500},
          b \in {None} \cup {Some([GoodMeta EXCEPT !.precision = p, !.scale = sc]) :
                               p \in MetaFields, sc \in MetaFields}}

InitMeta ==
  /\ InitConnection
  /\ info = None
  /\ gi = [g \in InfoCalls |-> NoInfoCall]
  /\ note = NoNote
  /\ op \in {[name |-> "_fetchLedgerMetadata", outcome |-> o, error |-> "pending"] :
               o \in MetadataOutcomes}

\* the call: it throws op'.error, or returns the body ("none")
FetchLedgerMetadataCall ==
  /\ op.name = "_fetchLedgerMetadata"
  /\ op.error = "pending"
  /\ op' = [op EXCEPT
              !.error = IF op.outcome.kind = "thrown" THEN FetchLedgerMetadataCatch
                        ELSE FetchLedgerMetadataError(op.outcome)]
  /\ UNCHANGED <<pluginVars, connection, connected, lastEvent, pc, retryVars,
                 metaFailed, result, em, streams, quiesced, info, gi, note>>

NextMeta == FetchLedgerMetadataCall

SpecMeta == InitMeta /\ [][NextMeta]_vars

\* ------------------------------------------------------------------------
\* Properties
\* ------------------------------------------------------------------------
StreamIds == 1..Len(streams)
InRetryLoop(c) == pc[c] \in {"account", "backoff"}

\* C1: connect() is idempotent under every interleaving, so at most one
\* subscription handle (emitter) exists that disconnect() has not been called on
C1_AtMostOneHandle ==
  Cardinality({c \in Calls : em[c].exists /\ em[c].reconnect}) <= 1

\* C2 (as claimed): no connect() call resolves successfully before a stream
\* 'open' event has happened
C2_ResolvedOnlyAfterOpen ==
  \A c \in Calls :
    result[c] = "ok" => \E s \in StreamIds : streams[s].everOpen

\* C2 (amended): a connect() call that opened the subscription stream itself
\* resolves successfully only after a stream it opened had its 'open' event
C2_OpenerResolvedOnlyAfterOpen ==
  \A c \in Calls :
    (result[c] = "ok" /\ em[c].exists)
      => \E s \in StreamIds : streams[s].owner = c /\ streams[s].everOpen

C2_Witness == \E c \in Calls : result[c] = "ok" /\ em[c].exists

\* C3: once disconnect() has been called on a subscription, a close event of
\* one of its streams never rejects a pending connect() with UnreachableError
C3_CloseAfterDisconnectNotUnreachable ==
  [][\A s \in StreamIds :
       (/\ streams[s].state /= "closed"
        /\ streams'[s].state = "closed"
        /\ ~em[streams[s].owner].reconnect)
         => \A c \in Calls :
              result[c] = "none" => result'[c] /= UnreachableError]_vars

\* a stream closed by disconnect() had its close event while its connect()
\* call was pending
C3_Witness ==
  \E s \in StreamIds :
    /\ streams[s].state = "closed"
    /\ streams[s].userClosed
    /\ result[streams[s].owner] = "none"

\* C4: after a disconnect() that follows a connect(), and with no connect()
\* since, there is no subscription handle and no stream that is open or opening
C4_DisconnectSafe ==
  quiesced =>
    /\ connection = 0
    /\ \A s \in StreamIds : streams[s].state \notin {"connecting", "open"}

\* the six service urls as the ledger metadata must carry them
UrlsAsRequired(u) ==
  /\ u["account_transfers"] = Str_ws
  /\ \A s \in REQUIRED_LEDGER_URLS \ {"account_transfers"} : u[s] = Str_http

\* C5: a connect() call that fails in account resolution, metadata resolution,
\* url validation or prefix determination opens no stream and creates no
\* handle; while no call has got past these steps the handle is unset,
\* isConnected() is false and no stream exists; and a handle only ever exists
\* with a resolved host and six valid service urls
C5_ResolutionFailureOpensNothing ==
  /\ \A c \in Calls :
       result[c] \in ResolutionFailures
         => /\ pc[c] = "done"
            /\ ~em[c].exists
            /\ connection /= c
            /\ \A s \in StreamIds : streams[s].owner /= c
  /\ (\A c \in Calls :
        \/ pc[c] \in {"idle", "account", "backoff", "metadata"}
        \/ result[c] \in ResolutionFailures)
       => connection = 0 /\ ~connected /\ streams = <<>>
  /\ (\E c \in Calls : em[c].exists)
       => host /= Nil /\ urls /= None /\ UrlsAsRequired(Get(urls))

\* a call failed in resolution and a later call is going through the sequence
C5_Witness ==
  \E c, d \in Calls :
    /\ c < d
    /\ result[c] \in {PrefixError, ExternalError}
    /\ ~metaFailed[c]
    /\ pc[d] = "stream"

\* C6: a stream that had an error event before it ever opened leaves its
\* connect() call failed with UnreachableError (or resolved before, by an
\* earlier stream of the same subscription)
C6_StreamErrorIsUnreachable ==
  \A s \in StreamIds :
    (~streams[s].errListener /\ ~streams[s].everOpen)
      => result[streams[s].owner] \in {"ok", UnreachableError}

\* C7: isConnected() is true exactly when the last of the 'connect' /
\* 'disconnect' events emitted is 'connect'
C7_ConnectedTracksEvents == connected = (lastEvent = "connect")

\* disconnect() was called, its stream closed, and 'disconnect' was emitted
C7_Witness ==
  /\ lastEvent = "disconnect"
  /\ \E s \in StreamIds : streams[s].state = "closed" /\ streams[s].userClosed

\* C8: the waits of requestRetry start at 1000, each later one is
\* min(floor(1.5 x the one before), 30000), and none exceeds 30000
C8_BackoffSchedule ==
  \A c \in Calls :
    /\ (lastWait[c] /= 0 /\ prevWait[c] = 0) => lastWait[c] = 1000
    /\ prevWait[c] /= 0 => lastWait[c] = Min((3 * prevWait[c]) \div 2, 30000)
    /\ lastWait[c] <= 30000

\* what C9 says of the states: the loop runs only while no response has been
\* received, a 4xx response aborts the call with the descriptive failure, and
\* any other response is what requestRetry returned
C9_LoopStates ==
  \A c \in Calls :
    /\ InRetryLoop(c) => rrRes[c] = NoResponse /\ result[c] = "none"
    /\ rrRes[c].status \in 400..499
         => /\ pc[c] = "done"
            /\ result[c] = ResolveError
            /\ connRes[c] = NoResponse
    /\ (rrRes[c] /= NoResponse /\ rrRes[c].status \notin 400..499)
         => connRes[c] = rrRes[c]

\* what C9 says of the steps: the loop is left exactly in the step that
\* receives a response
C9_LoopSteps ==
  \A c \in Calls :
    InRetryLoop(c) => (InRetryLoop(c)' <=> rrRes'[c] = NoResponse)

\* C9: the account-resolution loop ends exactly when a response is received
\* (4xx: abort with the descriptive failure; otherwise the response is
\* returned unchanged), and it ends if a response eventually arrives
C9_RetryLoopEndsOnResponse ==
  /\ []C9_LoopStates
  /\ [][C9_LoopSteps]_vars
  /\ \A c \in Calls : InRetryLoop(c) ~> ~InRetryLoop(c)

\* a 5xx response ended the loop of one call and was returned, while another
\* call is still retrying after a transport failure
C9_Witness ==
  \E c, d \in Calls :
    /\ rrRes[c].status = 500
    /\ connRes[c] = rrRes[c]
    /\ pc[c] = "metadata"
    /\ InRetryLoop(d) /\ lastWait[d] /= 0

Scheme(url) ==
  IF \E i \in 1..Len(url) : url[i] = ":"
    THEN SubSeq(url, 1, (CHOOSE i \in 1..Len(url) :
                           url[i] = ":" /\ \A j \in 1..(i - 1) : url[j] /= ":") - 1)
    ELSE <<>>

\* all six urls are present, the subscription url has the streaming scheme
\* and the other five the request/response scheme
CorrectlySchemed(u) ==
  \A s \in REQUIRED_LEDGER_URLS :
    IF s = "account_transfers"
      THEN Scheme(u[s]) \in {<<"w", "s">>, <<"w", "s", "s">>}
      ELSE Scheme(u[s]) \in {<<"h", "t", "t", "p">>, <<"h", "t", "t", "p", "s">>}

\* C11: service-url validation succeeds if and only if the map is there with
\* all six urls present and correctly schemed; in every other case it fails
\* with ExternalError and yields no urls for the adapter
C11_UrlValidationIffCorrectlySchemed ==
  (op.name = "parseAndValidateLedgerUrls" /\ op.error /= "pending")
    => /\ (op.error = "none")
            <=> (op.metadataUrls /= None /\ CorrectlySchemed(Get(op.metadataUrls)))
       /\ op.error /= "none" => (op.error = ExternalError /\ op.urls = None)


\* C12: a getInfo() called once ledger metadata has been resolved successfully
\* (by connect() or by an earlier getInfo()) makes no network call and returns
\* the cached value; and nothing is cached unless a resolution succeeded
C12_LaterGetInfoFromCache ==
  /\ \A g \in InfoCalls :
       gi[g].afterResolved
         => /\ gi[g].calls = 0
            /\ gi[g].pc = "done" /\ gi[g].result = "ok"
            /\ gi[g].value = info
  /\ info /= None
       => (urls /= None \/ \E g \in InfoCalls : gi[g].result = "ok")

\* (the part of C12 that the code keeps: a getInfo() called when this.info is
\* set makes no network call and returns this.info)
GetInfoAfterGetInfoFromCache ==
  \A g \in InfoCalls :
    (gi[g].pc = "done" /\ gi[g].result = "ok" /\ gi[g].calls = 0)
      => (gi[g].value = info /\ \E f \in InfoCalls : f < g /\ gi[f].calls = 1
                                                       /\ gi[f].result = "ok")


\* --- notifications --------------------------------------------------------
\* the adapter's account is among the credited / the debited parties
Credited(t) ==
  \E i \in 1..Len(t.credits) : t.credits[i].account = CredentialsAccount
Debited(t) ==
  \E i \in 1..Len(t.debits) : t.debits[i].account = CredentialsAccount
\* how many entries of a list of parties name the adapter's account
Matching(parties) ==
  Cardinality({i \in 1..Len(parties) : parties[i].account = CredentialsAccount})

\* the events of one direction that the last notification emitted
EventsOf(dir) == SelectSeq(note.events, LAMBDA e : e.transfer.direction = dir)
Names(events) == {events[i].name : i \in 1..Len(events)}
\* the last n characters of s (all of s when it is shorter)
LastChars(s, n) ==
  IF Len(s) <= n THEN s ELSE [i \in 1..n |-> s[Len(s) - n + i]]
\* the notification carries a fulfillment / a cancellation proof
HasFulfillment ==
  note.related /= None /\ Get(note.related).execution_condition_fulfillment /= Nil
HasCancellation ==
  note.related /= None /\ Get(note.related).cancellation_condition_fulfillment /= Nil

\* C13: a transfer notification that names the adapter's account neither among
\* the credits nor among the debits fails with UnrelatedNotificationError and
\* emits no event, whatever its state and related resources
C13_UnrelatedTransferFails ==
  (note.type = "transfer" /\ ~Credited(note.resource) /\ ~Debited(note.resource))
    => (note.error = UnrelatedNotificationError /\ note.events = <<>>)

\* an executed transfer among other accounts, notified with a fulfillment
C13_Witness ==
  /\ note.type = "transfer"
  /\ ~Credited(note.resource) /\ ~Debited(note.resource)
  /\ note.resource.state = "executed"
  /\ HasFulfillment
  /\ note.error = UnrelatedNotificationError

\* C14 (as claimed): a prepared transfer that credits the adapter's account
\* emits exactly one incoming event, an incoming_prepare whose transfer has
\* direction incoming and the last 36 characters of the ledger's id as its id
C14_ExactlyOneIncomingPrepare ==
  (note.type = "transfer" /\ note.resource.state = "prepared"
   /\ Credited(note.resource))
    => /\ Len(EventsOf("incoming")) = 1
       /\ EventsOf("incoming")[1].name = "incoming_prepare"
       /\ EventsOf("incoming")[1].transfer.id = LastChars(note.resource.id, 36)

\* C14 (amended): a prepared transfer that credits the adapter's account emits
\* one incoming_prepare for every credit entry that names the account and no
\* other incoming event; each carries a transfer with direction incoming whose
\* id is the last 36 characters of the ledger's id
C14_IncomingPreparePerCredit ==
  (note.type = "transfer" /\ note.resource.state = "prepared"
   /\ Credited(note.resource))
    => /\ Len(EventsOf("incoming")) = Matching(note.resource.credits)
       /\ \A i \in 1..Len(note.events) :
            note.events[i].name \in {"incoming_prepare", "incoming_transfer",
                                     "incoming_fulfill", "incoming_cancel",
                                     "incoming_reject"}
              => /\ note.events[i].name = "incoming_prepare"
                 /\ note.events[i].transfer.direction = "incoming"
                 /\ note.events[i].transfer.id = LastChars(note.resource.id, 36)

\* a prepared transfer with a long id credits the account in two entries
C14_Witness ==
  /\ note.type = "transfer" /\ note.resource.state = "prepared"
  /\ Matching(note.resource.credits) = 2
  /\ note.resource.id = LongId
  /\ Len(EventsOf("incoming")) = 2

\* C15 (as claimed): an executed transfer without an execution condition that
\* credits the adapter's account emits incoming_transfer and no
\* incoming_fulfill (no other incoming event), whatever the related resources
C15_OnlyIncomingTransfer ==
  (note.type = "transfer" /\ note.resource.state = "executed"
   /\ note.resource.execution_condition = Nil /\ Credited(note.resource))
    => Names(EventsOf("incoming")) = {"incoming_transfer"}

\* C15 (amended): such a notification emits incoming_transfer, and it emits
\* incoming_fulfill as well exactly when its related resources carry a
\* fulfillment; it emits no other incoming event
C15_IncomingTransferAndFulfillIfProof ==
  (note.type = "transfer" /\ note.resource.state = "executed"
   /\ note.resource.execution_condition = Nil /\ Credited(note.resource))
    => /\ "incoming_transfer" \in Names(EventsOf("incoming"))
       /\ "incoming_fulfill" \in Names(EventsOf("incoming")) <=> HasFulfillment
       /\ Names(EventsOf("incoming")) \subseteq {"incoming_transfer", "incoming_fulfill"}

\* an unconditional executed transfer to the account, notified with a
\* fulfillment
C15_Witness ==
  /\ note.type = "transfer" /\ note.resource.state = "executed"
  /\ note.resource.execution_condition = Nil /\ Credited(note.resource)
  /\ HasFulfillment
  /\ "incoming_fulfill" \in Names(EventsOf("incoming"))

\* C16: an executed transfer with an execution condition that credits the
\* adapter's account, notified with a fulfillment, emits incoming_fulfill
\* carrying exactly that fulfillment and does not emit incoming_transfer
C16_ConditionalExecutedEmitsFulfill ==
  (note.type = "transfer" /\ note.resource.state = "executed"
   /\ note.resource.execution_condition /= Nil /\ HasFulfillment
   /\ Credited(note.resource))
    => /\ \E i \in 1..Len(note.events) : note.events[i].name = "incoming_fulfill"
       /\ \A i \in 1..Len(note.events) :
            note.events[i].name = "incoming_fulfill"
              => note.events[i].arg
                   = Get(note.related).execution_condition_fulfillment
       /\ "incoming_transfer" \notin Names(note.events)

C16_Witness ==
  /\ note.type = "transfer" /\ note.resource.state = "executed"
  /\ note.resource.execution_condition /= Nil /\ HasFulfillment
  /\ Credited(note.resource) /\ ~Debited(note.resource)
  /\ Names(note.events) = {"incoming_fulfill"}

\* the one event C17 chooses for a side of a rejected transfer: its name and
\* what it carries
RejectedChoice(dir) ==
  IF HasCancellation
    THEN [name |-> dir \o "_cancel",
          arg |-> Get(note.related).cancellation_condition_fulfillment]
  ELSE IF \E i \in 1..Len(note.resource.credits) : note.resource.credits[i].rejected
    THEN [name |-> dir \o "_reject",
          arg |-> Base64Decode(
                    note.resource.credits[
                      CHOOSE i \in 1..Len(note.resource.credits) :
                        /\ note.resource.credits[i].rejected
                        /\ \A j \in 1..(i - 1) : ~note.resource.credits[j].rejected
                    ].rejection_message)]
  ELSE [name |-> dir \o "_cancel", arg |-> "transfer timed out."]

\* the events of a direction are n events, each the one C17 chooses
RejectedSide(dir, n) ==
  /\ Len(EventsOf(dir)) = n
  /\ \A i \in 1..Len(EventsOf(dir)) :
       /\ EventsOf(dir)[i].name = RejectedChoice(dir).name
       /\ EventsOf(dir)[i].arg = RejectedChoice(dir).arg

\* C17 (as claimed): a rejected transfer emits exactly one event for each
\* matching side (none for the other): _cancel with the cancellation proof,
\* else _reject with the decoded message when a credit is flagged rejected,
\* else _cancel with the timeout message
C17_OneRejectedEventPerSide ==
  (note.type = "transfer" /\ note.resource.state = "rejected")
    => /\ RejectedSide("incoming", IF Credited(note.resource) THEN 1 ELSE 0)
       /\ RejectedSide("outgoing", IF Debited(note.resource) THEN 1 ELSE 0)

\* C17 (amended): a rejected transfer emits exactly one event for each credit
\* entry and each debit entry that names the adapter's account, chosen as C17
\* says; never a _reject and a _cancel of the same direction
C17_OneRejectedEventPerEntry ==
  (note.type = "transfer" /\ note.resource.state = "rejected")
    => /\ RejectedSide("incoming", Matching(note.resource.credits))
       /\ RejectedSide("outgoing", Matching(note.resource.debits))
       /\ \A dir \in {"incoming", "outgoing"} :
            ~({dir \o "_reject", dir \o "_cancel"} \subseteq Names(note.events))

\* a rejected transfer without a proof, whose second credit is the one flagged
\* rejected, was notified to the account on both sides
C17_Witness ==
  /\ note.type = "transfer" /\ note.resource.state = "rejected"
  /\ ~HasCancellation
  /\ Len(note.resource.credits) = 2
  /\ ~note.resource.credits[1].rejected /\ note.resource.credits[2].rejected
  /\ Credited(note.resource) /\ Debited(note.resource)
  /\ Names(note.events) = {"incoming_reject", "outgoing_reject"}

\* C20: a transfer notification whose transfer belongs to another ledger than
\* the adapter's host fails with UnrelatedNotificationError and emits no
\* event, even when the adapter's account is one of its parties
C20_OtherLedgerTransferFails ==
  (note.type = "transfer" /\ note.resource.ledger /= note.host)
    => (note.error = UnrelatedNotificationError /\ note.events = <<>>)


\* --- operations -----------------------------------------------------------
\* a string that is a decimal number, with or without a sign
IsNumericString(s) ==
  \/ IsDigits(s)
  \/ (Len(s) > 1 /\ s[1] = "-" /\ IsDigits(Tail(s)))

\* the amounts C18 is about: "0", a negative amount, a value that is not a
\* string, a string that is not a number
BadAmount(amount) ==
  \/ amount.type /= "string"
  \/ ~IsNumericString(amount.chars)
  \/ amount.chars = <<"0">>
  \/ amount.chars[1] = "-"

\* C18: sendTransfer with such an amount fails with InvalidFieldsError before
\* any request (case registration or transfer PUT) is issued
C18_BadAmountFailsBeforeNetwork ==
  (op.name = "sendTransfer" /\ BadAmount(op.input.transfer.amount))
    => (op.result = InvalidFieldsError /\ op.calls = 0)

\* the error taxonomy
Taxonomy ==
  {InvalidFieldsError, TransferNotFoundError, TransferNotConditionalError,
   MissingFulfillmentError, NotAcceptedError, AlreadyRolledBackError,
   AlreadyFulfilledError, DuplicateIdError, UnrelatedNotificationError,
   UnreachableError, ExternalError}

\* C19: every public operation, in any state of the adapter and for any remote
\* outcome, resolves or fails with one kind of the taxonomy, never with a bare
\* transport error or an untyped error
C19_OperationsFailWithinTaxonomy ==
  /\ op.name /= "none" => op.result \in {"ok"} \cup Taxonomy
  /\ \A c \in Calls : result[c] \in {"none", "ok"} \cup Taxonomy
  /\ \A g \in InfoCalls : gi[g].result \in {"none", "ok"} \cup Taxonomy


\* what C21 says of a handled frame, by its declared type
C21_States ==
  /\ note.type = "connect" => (note.events = <<>> /\ note.error = "none")
  /\ (note.type = "message" /\ note.resource.ledger = note.host)
       => /\ note.error = "none"
          /\ Len(note.events) = 1
          /\ note.events[1].name = "incoming_message"
  /\ (note.type = "message" /\ note.resource.ledger /= note.host)
       => (note.error = UnrelatedNotificationError /\ note.events = <<>>)
  /\ note.type \notin {"none", "malformed", "connect", "transfer", "message"}
       => (note.error = UnrelatedNotificationError /\ note.events = <<>>)
  /\ note.type = "malformed" => (note.events = <<>> /\ note.error = "none")

\* what C21 says of the step that drops a frame: no field of the adapter, no
\* promise and no stream changes
C21_DropStep ==
  (note' /= note /\ note'.type = "malformed")
    => UNCHANGED <<pluginVars, connection, connected, lastEvent, pc, result,
                   em, streams, info, gi, op>>

\* C21: dispatch by declared type: 'connect' does nothing; a 'message' of the
\* adapter's ledger emits exactly one incoming_message, one of another ledger
\* fails with UnrelatedNotificationError and emits nothing; any other type
\* fails with UnrelatedNotificationError and emits nothing; a frame that does
\* not parse is dropped: no event, no error, no change of the adapter
C21_DispatchByType == []C21_States /\ [][C21_DropStep]_vars

\* a 'message' frame of another ledger was refused
C21_Witness ==
  /\ note.type = "message"
  /\ note.resource.ledger /= note.host
  /\ note.error = UnrelatedNotificationError


\* how many events of a name the last notification emitted
Count(name) ==
  Cardinality({i \in 1..Len(note.events) : note.events[i].name = name})
EventKinds == {"_prepare", "_transfer", "_fulfill", "_cancel", "_reject"}

\* both sides are processed, and in the same way: an event of a kind is
\* emitted for one side exactly if it is emitted for the other
BothSidesProcessed ==
  (Credited(note.resource) /\ Debited(note.resource))
    => \A k \in EventKinds :
         Count("incoming" \o k) > 0 <=> Count("outgoing" \o k) > 0

\* C22 (as claimed): one transfer notification produces at most one set of
\* events for the credit side and at most one for the debit side (no event is
\* emitted twice), for every list of credits and debits; when both sides
\* match, both are processed
C22_AtMostOneSetPerSide ==
  note.type = "transfer"
    => /\ \A k \in EventKinds :
            Count("incoming" \o k) <= 1 /\ Count("outgoing" \o k) <= 1
       /\ BothSidesProcessed

\* C22 (amended): one transfer notification produces one set of events for
\* every credit entry and one for every debit entry that names the adapter's
\* account (every event of a side is emitted once per matching entry of that
\* side), so at most one set per side only when no side names the account
\* twice; when both sides match, both are processed
C22_OneSetPerMatchingEntry ==
  note.type = "transfer"
    => /\ \A k \in EventKinds :
            /\ Count("incoming" \o k) \in {0, Matching(note.resource.credits)}
            /\ Count("outgoing" \o k) \in {0, Matching(note.resource.debits)}
       /\ BothSidesProcessed

\* a prepared transfer that names the account in one credit and in two debits
C22_Witness ==
  /\ note.type = "transfer" /\ note.resource.state = "prepared"
  /\ Matching(note.resource.credits) = 1
  /\ Matching(note.resource.debits) = 2
  /\ Count("incoming_prepare") = 1 /\ Count("outgoing_prepare") = 2


\* C25: an executed transfer with an execution condition, notified without a
\* fulfillment, emits no event for a side that names the adapter's account,
\* and its handling ends without an error
C25_ConditionalExecutedWithoutProofIsSilent ==
  (note.type = "transfer" /\ note.resource.state = "executed"
   /\ note.resource.execution_condition /= Nil /\ ~HasFulfillment
   /\ (Credited(note.resource) \/ Debited(note.resource)))
    => (note.events = <<>> /\ note.error = "none")

\* such a transfer, with the account among the debits only, was notified
\* with related resources that carry no fulfillment
C25_Witness ==
  /\ note.type = "transfer" /\ note.resource.state = "executed"
  /\ note.resource.execution_condition /= Nil
  /\ note.related /= None /\ ~HasFulfillment
  /\ ~Credited(note.resource) /\ Debited(note.resource)
  /\ note.events = <<>> /\ note.error = "none"


\* a registration was answered with success
Registered(o) == o.kind = "response" /\ o.status = 200

\* what C23 says of the states of a sendTransfer with cases: requests are
\* issued in list order and the PUT last; the PUT is issued only when every
\* case was registered with a 200 response; a registration that did not get a
\* 200 response is the last request of the operation, which has failed
C23_States ==
  op.name = "_sendTransfer"
    => /\ Len(op.log) <= op.cases + 1
       /\ \A k \in 1..Len(op.log) :
            op.log[k] = IF k <= op.cases THEN PostCase(k) ELSE PutTransfer
       /\ (\E k \in 1..Len(op.log) : op.log[k] = PutTransfer)
            => /\ Len(op.responses) = op.cases
               /\ \A k \in 1..op.cases : Registered(op.responses[k])
       /\ \A k \in 1..Len(op.responses) :
            ~Registered(op.responses[k])
              => /\ k = Len(op.responses)
                 /\ Len(op.log) = k
                 /\ op.pc = "done"
                 /\ op.result \notin {"none", "ok"}

\* what C23 says of the steps: a failed operation issues no request any more
C23_Steps ==
  (op.name = "_sendTransfer" /\ op.pc = "done") => op'.log = op.log

\* C23: for a sendTransfer with cases, the transfer PUT is issued only after
\* every case registration, in list order, was answered with 200; the first
\* other answer fails the operation at once, and no registration and no PUT
\* follows it
C23_RegistrationsBeforePut == []C23_States /\ [][C23_Steps]_vars

\* the first of two registrations was answered 404: the operation has failed
\* after one request
C23_Witness ==
  /\ op.name = "_sendTransfer" /\ op.cases = 2
  /\ Len(op.responses) = 1 /\ op.responses[1] = Response(404, None)
  /\ op.pc = "done" /\ op.result = UnexpectedStatusError
  /\ op.log = <<PostCase(1)>>


\* the outcome is a 200 response whose body has a numeric precision and a
\* numeric scale
NumericMetadata(o) ==
  /\ o.kind = "response" /\ o.status = 200 /\ o.body /= None
  /\ Get(o.body).precision /= None /\ Get(o.body).scale /= None

\* C24: metadata resolution succeeds for every 200 response whose body has a
\* numeric precision and scale, whatever their values, and fails with
\* ExternalError for every other response that has a body
C24_MetadataSucceedsIffNumericFields ==
  (op.name = "_fetchLedgerMetadata" /\ op.error /= "pending"
     /\ op.outcome.kind = "response" /\ op.outcome.body /= None)
    => IF NumericMetadata(op.outcome) THEN op.error = "none"
       ELSE op.error = ExternalError

====
